---- MODULE Spec2Model ----
(***************************************************************************)
(* go-openDMARC: the public-suffix matcher (package etldplusone) and the   *)
(* DMARC record parser and lookup (package lookup).                        *)
(*                                                                         *)
(* Go strings are TLA+ strings; the functions of package strings and       *)
(* strconv that the code calls are operators over them, computed           *)
(* character by character (SubSeq, Len and \o act on strings in TLC).      *)
(* Every exported function is a pure function of its arguments: a          *)
(* behaviour is one call, the arguments drawn by Init, the call made by    *)
(* one action that stores what the function returns.                       *)
(***************************************************************************)
EXTENDS Integers, Sequences, FiniteSets, TLC

VARIABLES
    op,          \* the function called
    pc,          \* "call" before it runs, "done" after, "classified" after IsTempFail
    domain, suffixes, wildcards, exceptions,   \* arguments of FindETLDPlusOne
    segs, txt,   \* argument of Parse: txt, and the tag=value pieces it is made of
    resolved,    \* what the TXT resolver hands to LookupWithOptions
    retStr, retRec, retErr,                    \* what the call returned
    tempFail     \* what IsTempFail said of the returned error

vars == <<op, pc, domain, suffixes, wildcards, exceptions, segs, txt, resolved,
          retStr, retRec, retErr, tempFail>>

-----------------------------------------------------------------------------
(* Bounds of the explored inputs.                                          *)

MaxLabels == 3
MaxRules == 2
MaxSegs == 3
MaxTxts == 3

-----------------------------------------------------------------------------
(* package strings / strconv                                               *)

Min(S) == CHOOSE x \in S : \A y \in S : x <= y
Max(S) == CHOOSE x \in S : \A y \in S : x >= y

Char(s, i) == SubSeq(s, i, i)

UpperLetters == "ABCDEFGHIJKLMNOPQRSTUVWXYZ"
LowerLetters == "abcdefghijklmnopqrstuvwxyz"

\* The lower-case letter of each upper-case letter.
LowerOf ==
    [c \in {Char(UpperLetters, i) : i \in 1..Len(UpperLetters)} |->
        Char(LowerLetters, CHOOSE i \in 1..Len(UpperLetters) : Char(UpperLetters, i) = c)]

ToLowerChar(c) == IF c \in DOMAIN LowerOf THEN LowerOf[c] ELSE c

RECURSIVE ToLower(_)
ToLower(s) ==
    IF Len(s) = 0 THEN "" ELSE ToLowerChar(Char(s, 1)) \o ToLower(SubSeq(s, 2, Len(s)))

\* ASCII case folding: two strings are equal under folding when their
\* lower-cased forms are equal.
EqualFold(s, t) == ToLower(s) = ToLower(t)

HasPrefix(s, prefix) ==
    Len(s) >= Len(prefix) /\ SubSeq(s, 1, Len(prefix)) = prefix

HasSuffix(s, suffix) ==
    Len(s) >= Len(suffix) /\ SubSeq(s, Len(s) - Len(suffix) + 1, Len(s)) = suffix

\* 0-based offsets at which substr occurs in s.
Occurrences(s, substr) ==
    {i \in 0..(Len(s) - Len(substr)) : SubSeq(s, i + 1, i + Len(substr)) = substr}

\* strings.Index: offset of the first occurrence, -1 when there is none.
Index(s, substr) ==
    IF Occurrences(s, substr) = {} THEN -1 ELSE Min(Occurrences(s, substr))

Contains(s, substr) == Index(s, substr) >= 0

\* strings.Split with a non-empty separator.
RECURSIVE Split(_, _)
Split(s, sep) ==
    LET i == Index(s, sep)
    IN  IF i < 0 THEN <<s>>
        ELSE <<SubSeq(s, 1, i)>> \o Split(SubSeq(s, i + Len(sep) + 1, Len(s)), sep)

\* strings.SplitN(s, sep, 2): split at the first separator only.
SplitN2(s, sep) ==
    LET i == Index(s, sep)
    IN  IF i < 0 THEN <<s>>
        ELSE <<SubSeq(s, 1, i), SubSeq(s, i + Len(sep) + 1, Len(s))>>

RECURSIVE Join(_, _)
Join(elems, sep) ==
    IF Len(elems) = 0 THEN ""
    ELSE IF Len(elems) = 1 THEN elems[1]
    ELSE elems[1] \o sep \o Join(Tail(elems), sep)

IsSpace(c) == c \in {" ", "\t", "\n", "\r", "\f"}

RECURSIVE TrimLeft(_)
TrimLeft(s) ==
    IF Len(s) > 0 /\ IsSpace(Char(s, 1)) THEN TrimLeft(SubSeq(s, 2, Len(s))) ELSE s

RECURSIVE TrimRight(_)
TrimRight(s) ==
    IF Len(s) > 0 /\ IsSpace(Char(s, Len(s))) THEN TrimRight(SubSeq(s, 1, Len(s) - 1)) ELSE s

TrimSpace(s) == TrimRight(TrimLeft(s))

Digits == "0123456789"

IsDigit(c) == Len(c) = 1 /\ Contains(Digits, c)

\* The accumulation loop of strconv.Atoi over a string of digits.
RECURSIVE DigitsValue(_, _)
DigitsValue(s, n) ==
    IF Len(s) = 0 THEN n
    ELSE DigitsValue(SubSeq(s, 2, Len(s)), n * 10 + Index(Digits, Char(s, 1)))

\* strconv.Atoi: an optional sign, then one or more decimal digits; anything
\* else is a syntax error.  (The explored values are short, so the range
\* error of a value beyond the width of int does not arise.)
Atoi(s) ==
    LET signed == Len(s) > 0 /\ Char(s, 1) \in {"+", "-"}
        body == IF signed THEN SubSeq(s, 2, Len(s)) ELSE s
    IN  IF Len(body) < 1 \/ \E k \in 1..Len(body) : ~IsDigit(Char(body, k))
        THEN [val |-> 0, ok |-> FALSE]
        ELSE [val |-> IF signed /\ Char(s, 1) = "-"
                      THEN 0 - DigitsValue(body, 0) ELSE DigitsValue(body, 0),
              ok |-> TRUE]

\* The %v form of an int.
RECURSIVE NatToString(_)
NatToString(n) ==
    IF n < 10 THEN Char(Digits, n + 1)
    ELSE NatToString(n \div 10) \o Char(Digits, (n % 10) + 1)

IntToString(n) == IF n < 0 THEN "-" \o NatToString(0 - n) ELSE NatToString(n)

-----------------------------------------------------------------------------
(* errors                                                                  *)

\* An error value: its dynamic type, its identity (package-level error
\* variables are compared by identity) and its text.
NilErr == [type |-> "nil", id |-> "nil", msg |-> ""]

NewError(msg) == [type |-> "*errors.errorString", id |-> "fresh", msg |-> msg]

-----------------------------------------------------------------------------
(* package etldplusone                                                     *)

\* Mutant: the exact comparison made case-sensitive.
ExactMatch_CaseSensitive(candidate, sfx) ==
    \E k \in 1..Len(sfx) : candidate = sfx[k]

\* The exact-match loop over suffixes at start index i.
ExactMatch(candidate, sfx) ==
    \E k \in 1..Len(sfx) : EqualFold(candidate, sfx[k])

\* Mutant: the wildcard comparison made case-insensitive.
WildcardMatch_Folded(candidate, wld) ==
    \E k \in 1..Len(wld) : HasSuffix(ToLower(candidate), ToLower(wld[k]))

\* The wildcard loop at start index i: the first wildcard that is a string
\* suffix of the candidate decides.
WildcardMatch(candidate, wld) ==
    \E k \in 1..Len(wld) : HasSuffix(candidate, wld[k])

\* Mutant: the last matching exception wins instead of the first.
FirstException_Last(candidate, exc) ==
    LET hits == {k \in 1..Len(exc) : Contains(candidate, exc[k])}
    IN  IF hits = {} THEN <<>> ELSE <<exc[Max(hits)]>>

\* The exception loop: the first exception contained in the candidate.
FirstException(candidate, exc) ==
    LET hits == {k \in 1..Len(exc) : Contains(candidate, exc[k])}
    IN  IF hits = {} THEN <<>> ELSE <<exc[Min(hits)]>>

\* Mutant: the result is built from the case-folded labels.
PlusOne_Lowered(d, domainParts, i) ==
    IF i = 0 THEN ToLower(d)
    ELSE ToLower(Join(SubSeq(domainParts, i, Len(domainParts)), "."))

\* The result of a match at start index i.
PlusOne(d, domainParts, i) ==
    IF i = 0 THEN d ELSE Join(SubSeq(domainParts, i, Len(domainParts)), ".")

\* The loop of FindETLDPlusOne from start index i (0-based, as in the code).
RECURSIVE FindFrom(_, _, _, _, _, _)
FindFrom(d, domainParts, i, sfx, wld, exc) ==
    IF i >= Len(domainParts)
    THEN [str |-> "", err |-> NewError("no eTLD+1 found for domain: " \o d)]
    ELSE LET candidate == Join(SubSeq(domainParts, i + 1, Len(domainParts)), ".")
         IN  IF ExactMatch(candidate, sfx)
             THEN [str |-> PlusOne(d, domainParts, i), err |-> NilErr]
             ELSE IF WildcardMatch(candidate, wld)
             THEN IF FirstException(candidate, exc) # <<>>
                  THEN [str |-> FirstException(candidate, exc)[1], err |-> NilErr]
                  ELSE [str |-> PlusOne(d, domainParts, i), err |-> NilErr]
             ELSE FindFrom(d, domainParts, i + 1, sfx, wld, exc)

FindETLDPlusOne(d, sfx, wld, exc) ==
    FindFrom(d, Split(d, "."), 0, sfx, wld, exc)

-----------------------------------------------------------------------------
(* package lookup                                                          *)

AlignmentStrict == "s"
AlignmentRelaxed == "r"

\* FailureOptions is a bit set held in an int.
FailureAll == 1
FailureAny == 2
FailureDKIM == 4
FailureSPF == 8

\* opts |= bit, for a single bit.
BitOr(opts, bit) == IF (opts \div bit) % 2 = 1 THEN opts ELSE opts + bit

PolicyNone == "none"
PolicyQuarantine == "quarantine"
PolicyReject == "reject"

RFCDmarcRecordPrefix == "v=DMARC1"

\* Mutant: the map of recognized tags lacks "sp".
RFCSupportedTags_WithoutSp ==
    {"v", "p", "adkim", "aspf", "fo", "pct", "rf", "ri", "rua", "ruf"}

RFCSupportedTags ==
    {"v", "p", "adkim", "aspf", "fo", "pct", "rf", "ri", "rua", "ruf", "sp"}

\* The string type tempFailError, with its own Error method.
tempFailError(s) == [type |-> "tempFailError", id |-> "fresh", msg |-> "dmarc: " \o s]

\* The type assertion err.(tempFailError).
IsTempFail(err) == err.type = "tempFailError"

ErrNoPolicy ==
    [type |-> "*errors.errorString", id |-> "ErrNoPolicy",
     msg |-> "dmarc: no policy found for domain"]
ErrMultipleRecords ==
    [type |-> "*errors.errorString", id |-> "ErrMultipleRecords",
     msg |-> "dmarc: multiple DMARC records found for domain"]

\* new(Record): every field at its zero value.  Percent is a pointer: <<>>
\* is nil and <<i>> points to i.  ReportInterval is a time.Duration, counted
\* here in seconds (time.Second is the unit).
ZeroRecord ==
    [DKIMAlignment |-> "", SPFAlignment |-> "", FailureOptions |-> 0,
     Policy |-> "", Percent |-> <<>>, ReportFormat |-> <<>>,
     ReportInterval |-> 0, ReportURIAggregate |-> <<>>,
     ReportURIFailure |-> <<>>, SubdomainPolicy |-> ""]

\* A nil *Record.
NoRec == <<>>

toLowerCaseSlice(arr) == [k \in 1..Len(arr) |-> ToLower(arr[k])]

\* A map[string]string is a function on the set of its keys.
EmptyMap == [k \in {} |-> ""]
Has(m, key) == key \in DOMAIN m
Get(m, key) == IF Has(m, key) THEN m[key] ELSE ""
Put(m, key, val) == [k \in (DOMAIN m) \cup {key} |-> IF k = key THEN val ELSE m[k]]

\* The loop of parseParams from pair number n of pairs (1-based).
RECURSIVE parseParamsFrom(_, _, _)
parseParamsFrom(pairs, n, params) ==
    IF n > Len(pairs) THEN [params |-> params, err |-> NilErr]
    ELSE LET split == SplitN2(pairs[n], "=")
         IN  IF Len(split) # 2 THEN parseParamsFrom(pairs, n + 1, params)
             ELSE LET kv == toLowerCaseSlice(split)
                      key == TrimSpace(kv[1])
                      val == TrimSpace(kv[2])
                  IN  IF /\ Has(params, key)
                         /\ key \in RFCSupportedTags
                         /\ params[key] # val
                      THEN [params |-> params,
                            err |-> NewError("dmarc: duplicate parameter '" \o kv[1] \o "'")]
                      ELSE parseParamsFrom(pairs, n + 1, Put(params, key, val))

parseParams(s) == parseParamsFrom(Split(s, ";"), 1, EmptyMap)

parsePolicy(s, param) ==
    IF s \in {"none", "quarantine", "reject"}
    THEN [val |-> s, err |-> NilErr]
    ELSE [val |-> "",
          err |-> NewError("dmarc: invalid policy for parameter '" \o param \o "'")]

parseAlignmentMode(s, param) ==
    IF s \in {"r", "s"}
    THEN [val |-> s, err |-> NilErr]
    ELSE [val |-> "",
          err |-> NewError("dmarc: invalid alignment mode for parameter '" \o param \o "'")]

\* The loop of parseFailureOptions from token number n of l.
RECURSIVE FailureOptionsFrom(_, _, _)
FailureOptionsFrom(l, n, opts) ==
    IF n > Len(l) THEN [val |-> opts, err |-> NilErr]
    ELSE LET o == TrimSpace(l[n])
         IN  IF o = "0" THEN FailureOptionsFrom(l, n + 1, BitOr(opts, FailureAll))
             ELSE IF o = "1" THEN FailureOptionsFrom(l, n + 1, BitOr(opts, FailureAny))
             ELSE IF o = "d" THEN FailureOptionsFrom(l, n + 1, BitOr(opts, FailureDKIM))
             ELSE IF o = "s" THEN FailureOptionsFrom(l, n + 1, BitOr(opts, FailureSPF))
             ELSE [val |-> 0,
                   err |-> NewError("dmarc: invalid failure option in parameter 'fo'")]

parseFailureOptions(s) == FailureOptionsFrom(Split(s, ":"), 1, 0)

parseURIList(s) ==
    LET l == Split(s, ",") IN [k \in 1..Len(l) |-> TrimSpace(l[k])]

\* The "fo" step of Parse: the error of parseFailureOptions is dropped.
ParseFo(params) ==
    IF Has(params, "fo") THEN parseFailureOptions(params["fo"]).val ELSE 0

\* Mutant: an unparseable pct is an error, not the default.
ParsePct_Strict(params) ==
    IF ~Has(params, "pct") THEN [val |-> <<>>, err |-> NilErr]
    ELSE LET a == Atoi(params["pct"])
         IN  IF ~a.ok THEN [val |-> <<>>, err |-> NewError("dmarc: invalid parameter 'pct'")]
             ELSE IF a.val < 0 \/ a.val > 100
             THEN [val |-> <<>>,
                   err |-> NewError("dmarc: invalid parameter 'pct': value "
                                    \o IntToString(a.val) \o " out of bounds")]
             ELSE [val |-> <<a.val>>, err |-> NilErr]

\* The "pct" step of Parse.
ParsePct(params) ==
    IF ~Has(params, "pct") THEN [val |-> <<>>, err |-> NilErr]
    ELSE LET a == Atoi(params["pct"])
             i == IF a.ok THEN a.val ELSE 100
         IN  IF i < 0 \/ i > 100
             THEN [val |-> <<>>,
                   err |-> NewError("dmarc: invalid parameter 'pct': value "
                                    \o IntToString(i) \o " out of bounds")]
             ELSE [val |-> <<i>>, err |-> NilErr]

\* The "rf" step of Parse.
ParseRf(params) ==
    IF ~Has(params, "rf") THEN [val |-> <<>>, err |-> NilErr]
    ELSE LET l == Split(params["rf"], ":")
         IN  IF \E k \in 1..Len(l) : l[k] \notin {"afrf", "iodef"}
             THEN [val |-> <<>>, err |-> NewError("dmarc: invalid parameter 'rf'")]
             ELSE [val |-> l, err |-> NilErr]

\* The "ri" step of Parse.
ParseRi(params) ==
    IF ~Has(params, "ri") THEN [val |-> 0, err |-> NilErr]
    ELSE LET a == Atoi(params["ri"])
             i == IF a.ok THEN a.val ELSE 86400
         IN  IF i <= 0
             THEN [val |-> 0,
                   err |-> NewError("dmarc: invalid parameter 'ri': negative or zero duration")]
             ELSE [val |-> i, err |-> NilErr]

\* The "sp" step of Parse.
ParseSp(params, policy) ==
    IF ~Has(params, "sp") THEN ""
    ELSE LET sp == parsePolicy(params["sp"], "sp")
         IN  IF sp.err # NilErr THEN policy ELSE sp.val

Parse(t) ==
    LET pp == parseParams(t)
        params == pp.params
        p == parsePolicy(Get(params, "p"), "p")
        adkim == IF Has(params, "adkim")
                 THEN parseAlignmentMode(params["adkim"], "adkim")
                 ELSE [val |-> AlignmentRelaxed, err |-> NilErr]
        aspf == IF Has(params, "aspf")
                THEN parseAlignmentMode(params["aspf"], "aspf")
                ELSE [val |-> AlignmentRelaxed, err |-> NilErr]
        pct == ParsePct(params)
        rf == ParseRf(params)
        ri == ParseRi(params)
    IN  IF pp.err # NilErr THEN [rec |-> NoRec, err |-> pp.err]
        ELSE IF ~EqualFold(Get(params, "v"), "DMARC1")
        THEN [rec |-> NoRec, err |-> NewError("dmarc: unsupported DMARC version")]
        ELSE IF ~Has(params, "p")
        THEN [rec |-> NoRec, err |-> NewError("dmarc: record is missing a 'p' parameter")]
        ELSE IF p.err # NilErr THEN [rec |-> NoRec, err |-> p.err]
        ELSE IF adkim.err # NilErr THEN [rec |-> NoRec, err |-> adkim.err]
        ELSE IF aspf.err # NilErr THEN [rec |-> NoRec, err |-> aspf.err]
        ELSE IF pct.err # NilErr THEN [rec |-> NoRec, err |-> pct.err]
        ELSE IF rf.err # NilErr THEN [rec |-> NoRec, err |-> rf.err]
        ELSE IF ri.err # NilErr THEN [rec |-> NoRec, err |-> ri.err]
        ELSE [rec |-> [ZeroRecord EXCEPT
                          !.Policy = p.val,
                          !.DKIMAlignment = adkim.val,
                          !.SPFAlignment = aspf.val,
                          !.FailureOptions = ParseFo(params),
                          !.Percent = pct.val,
                          !.ReportFormat = rf.val,
                          !.ReportInterval = ri.val,
                          !.ReportURIAggregate =
                              IF Has(params, "rua") THEN parseURIList(params["rua"]) ELSE <<>>,
                          !.ReportURIFailure =
                              IF Has(params, "ruf") THEN parseURIList(params["ruf"]) ELSE <<>>,
                          !.SubdomainPolicy = ParseSp(params, p.val)],
              err |-> NilErr]

\* The loop of LookupWithOptions over txts from string number n, with the
\* records parsed so far.
RECURSIVE LookupFrom(_, _, _)
LookupFrom(txts, n, dmarcRecords) ==
    IF n > Len(txts)
    THEN IF Len(dmarcRecords) = 0 THEN [rec |-> NoRec, err |-> ErrNoPolicy]
         ELSE IF Len(dmarcRecords) > 1 THEN [rec |-> NoRec, err |-> ErrMultipleRecords]
         ELSE [rec |-> dmarcRecords[1], err |-> NilErr]
    ELSE IF HasPrefix(txts[n], RFCDmarcRecordPrefix)
         THEN LET r == Parse(txts[n])
              IN  IF r.err = NilErr
                  THEN LookupFrom(txts, n + 1, Append(dmarcRecords, r.rec))
                  ELSE [rec |-> NoRec, err |-> r.err]
         ELSE LookupFrom(txts, n + 1, dmarcRecords)

\* Mutant: with several DMARC records the first one is returned.
LookupWithOptions_PickFirst(res) ==
    IF res.err # NilErr
    THEN IF res.err.type = "*net.DNSError" /\ res.err.IsNotFound
         THEN [rec |-> NoRec, err |-> ErrNoPolicy]
         ELSE [rec |-> NoRec,
               err |-> NewError("dmarc: failed to lookup TXT record: " \o res.err.msg)]
    ELSE LET r == LookupFrom(res.txts, 1, <<>>)
             first == CHOOSE n \in 1..Len(res.txts) :
                          /\ HasPrefix(res.txts[n], RFCDmarcRecordPrefix)
                          /\ \A m \in 1..(n - 1) : ~HasPrefix(res.txts[m], RFCDmarcRecordPrefix)
         IN  IF r.err = ErrMultipleRecords THEN Parse(res.txts[first]) ELSE r

\* res is what the TXT resolver returned for "_dmarc." + domain: the strings
\* and the error.
LookupWithOptions(res) ==
    IF res.err # NilErr
    THEN IF res.err.type = "*net.DNSError" /\ res.err.IsNotFound
         THEN [rec |-> NoRec, err |-> ErrNoPolicy]
         ELSE [rec |-> NoRec,
               err |-> NewError("dmarc: failed to lookup TXT record: " \o res.err.msg)]
    ELSE IF Len(res.txts) = 0 THEN [rec |-> NoRec, err |-> ErrNoPolicy]
    ELSE LookupFrom(res.txts, 1, <<>>)

-----------------------------------------------------------------------------
(* Inputs                                                                  *)

RECURSIVE SeqsUpTo(_, _)
SeqsUpTo(S, n) ==
    IF n = 0 THEN {<<>>}
    ELSE LET shorter == SeqsUpTo(S, n - 1)
         IN  shorter \cup {Append(q, x) : q \in {r \in shorter : Len(r) = n - 1}, x \in S}

Labels == {"a", "B"}
Domains == {Join(q, ".") : q \in SeqsUpTo(Labels, MaxLabels) \ {<<>>}}
SuffixVocab == {"b", "a.b"}
WildcardVocab == {"B", "b"}
ExceptionVocab == {"a", "a.B"}

\* A piece of a TXT record as published (raw) and, when it is a tag=value
\* pair, the tag and the value it stands for (lower-cased, trimmed).
Seg(raw, pair, tag, val) == [raw |-> raw, pair |-> pair, tag |-> tag, val |-> val]

SegVocab ==
    { Seg("v=DMARC1", TRUE, "v", "dmarc1"),
      Seg(" p=reject", TRUE, "p", "reject"),
      Seg(" P = None ", TRUE, "p", "none"),
      Seg(" p=quarantine", TRUE, "p", "quarantine"),
      Seg(" fo=0:d", TRUE, "fo", "0:d"),
      Seg(" fo=1:x", TRUE, "fo", "1:x"),
      Seg(" pct=abc", TRUE, "pct", "abc"),
      Seg(" pct=150", TRUE, "pct", "150"),
      Seg(" ri=xyz", TRUE, "ri", "xyz"),
      Seg(" ri=0", TRUE, "ri", "0"),
      Seg(" sp=bogus", TRUE, "sp", "bogus"),
      Seg(" sp=", TRUE, "sp", ""),
      Seg(" x=1", TRUE, "x", "1"),
      Seg(" x=2", TRUE, "x", "2"),
      Seg(" junk", FALSE, "", "") }

\* What a TXT resolver can answer: an error, or a list of strings.
DNSError(msg, isNotFound) ==
    [type |-> "*net.DNSError", id |-> "fresh", msg |-> msg, IsNotFound |-> isNotFound]

ResolverErrors ==
    { DNSError("lookup _dmarc.example.org: no such host", TRUE),
      DNSError("lookup _dmarc.example.org: i/o timeout", FALSE),
      NewError("resolver closed") }

TxtVocab ==
    { "v=DMARC1; p=reject",
      "v=DMARC1; p=none; pct=abc",
      "v=DMARC1; p=bogus",
      "V=DMARC1; p=none",
      "v=spf1 -all" }

Resolutions ==
    {[txts |-> q, err |-> NilErr] : q \in SeqsUpTo(TxtVocab, MaxTxts)}
        \cup {[txts |-> <<>>, err |-> e] : e \in ResolverErrors}

NoResolution == [txts |-> <<>>, err |-> NilErr]

InitETLD ==
    /\ op = "FindETLDPlusOne"
    /\ pc = "call"
    /\ domain \in Domains
    /\ suffixes \in SeqsUpTo(SuffixVocab, MaxRules)
    /\ wildcards \in SeqsUpTo(WildcardVocab, MaxRules)
    /\ exceptions \in SeqsUpTo(ExceptionVocab, MaxRules)
    /\ segs = <<>>
    /\ txt = ""
    /\ resolved = NoResolution
    /\ retStr = ""
    /\ retRec = NoRec
    /\ retErr = NilErr
    /\ tempFail = FALSE

InitParse ==
    /\ op = "Parse"
    /\ pc = "call"
    /\ domain = ""
    /\ suffixes = <<>>
    /\ wildcards = <<>>
    /\ exceptions = <<>>
    /\ segs \in SeqsUpTo(SegVocab, MaxSegs) \ {<<>>}
    /\ txt = Join([k \in 1..Len(segs) |-> segs[k].raw], ";")
    /\ resolved = NoResolution
    /\ retStr = ""
    /\ retRec = NoRec
    /\ retErr = NilErr
    /\ tempFail = FALSE

InitLookup ==
    /\ op = "LookupWithOptions"
    /\ pc = "call"
    /\ domain = "example.org"
    /\ suffixes = <<>>
    /\ wildcards = <<>>
    /\ exceptions = <<>>
    /\ segs = <<>>
    /\ txt = ""
    /\ resolved \in Resolutions
    /\ retStr = ""
    /\ retRec = NoRec
    /\ retErr = NilErr
    /\ tempFail = FALSE

Init == InitETLD \/ InitParse \/ InitLookup

DoFindETLDPlusOne ==
    /\ op = "FindETLDPlusOne"
    /\ pc = "call"
    /\ LET r == FindETLDPlusOne(domain, suffixes, wildcards, exceptions)
       IN  /\ retStr' = r.str
           /\ retErr' = r.err
    /\ pc' = "done"
    /\ UNCHANGED <<op, domain, suffixes, wildcards, exceptions, segs, txt, resolved,
                   retRec, tempFail>>

DoParse ==
    /\ op = "Parse"
    /\ pc = "call"
    /\ LET r == Parse(txt)
       IN  /\ retRec' = r.rec
           /\ retErr' = r.err
    /\ pc' = "done"
    /\ UNCHANGED <<op, domain, suffixes, wildcards, exceptions, segs, txt, resolved,
                   retStr, tempFail>>

DoLookupWithOptions ==
    /\ op = "LookupWithOptions"
    /\ pc = "call"
    /\ LET r == LookupWithOptions(resolved)
       IN  /\ retRec' = r.rec
           /\ retErr' = r.err
    /\ pc' = "done"
    /\ UNCHANGED <<op, domain, suffixes, wildcards, exceptions, segs, txt, resolved,
                   retStr, tempFail>>

\* The caller asks whether the error Lookup returned is a temporary failure.
DoIsTempFail ==
    /\ op = "LookupWithOptions"
    /\ pc = "done"
    /\ tempFail' = IsTempFail(retErr)
    /\ pc' = "classified"
    /\ UNCHANGED <<op, domain, suffixes, wildcards, exceptions, segs, txt, resolved,
                   retStr, retRec, retErr>>

NextLookup == DoLookupWithOptions \/ DoIsTempFail

Next == DoFindETLDPlusOne \/ DoParse \/ DoLookupWithOptions \/ DoIsTempFail

SpecETLD == InitETLD /\ [][DoFindETLDPlusOne]_vars
SpecParse == InitParse /\ [][DoParse]_vars
SpecLookup == InitLookup /\ [][NextLookup]_vars
Spec == Init /\ [][Next]_vars

-----------------------------------------------------------------------------
(* Properties of FindETLDPlusOne                                           *)

Range(q) == {q[k] : k \in 1..Len(q)}

ETLDDone == op = "FindETLDPlusOne" /\ pc = "done"

\* The labels of the input domain and the candidate at 0-based start index i.
DomainLabels == Split(domain, ".")
TrailingRun(i) == Join(SubSeq(DomainLabels, i + 1, Len(DomainLabels)), ".")

ExactAt(i) == \E s \in Range(suffixes) : ToLower(TrailingRun(i)) = ToLower(s)
WildcardAt(i) == \E w \in Range(wildcards) : HasSuffix(TrailingRun(i), w)
MatchAt(i) == ExactAt(i) \/ WildcardAt(i)
MatchIndexes == {i \in 0..(Len(DomainLabels) - 1) : MatchAt(i)}

\* The suffix plus one label: the whole domain at index 0.
SuffixPlusOneLabel(i) == IF i = 0 THEN domain ELSE TrailingRun(i - 1)

ExceptionHits(i) == {k \in 1..Len(exceptions) : Contains(TrailingRun(i), exceptions[k])}

\* d = label + "." + s with s case-insensitively equal to a suffixes entry.
LabelPlusSuffix ==
    /\ Len(DomainLabels) >= 2
    /\ \E s \in Range(suffixes) : ToLower(TrailingRun(1)) = ToLower(s)

\* The whole domain is matched by a wildcard only, and an exception is a
\* substring of it.
ExceptionOverridesAtZero ==
    /\ ~ExactAt(0)
    /\ WildcardAt(0)
    /\ ExceptionHits(0) # {}

\* C7 as stated: for d = label + "." + s with s a (case-insensitive) suffixes
\* entry, FindETLDPlusOne succeeds and returns d itself, whatever the
\* wildcards and exceptions lists are.
C7_LabelPlusSuffixAlways ==
    (ETLDDone /\ LabelPlusSuffix) => (retErr = NilErr /\ retStr = domain)

\* C7 amended: for d = label + "." + s with s a (case-insensitive) suffixes
\* entry, FindETLDPlusOne succeeds; it returns d itself with its letter case
\* unless d matches no suffixes entry, ends with a wildcards entry and
\* contains an exceptions entry, and then it returns the first such
\* exceptions entry.
C7_LabelPlusSuffix ==
    (ETLDDone /\ LabelPlusSuffix) =>
        /\ retErr = NilErr
        /\ IF ExceptionOverridesAtZero
           THEN retStr = exceptions[Min(ExceptionHits(0))]
           ELSE retStr = domain

\* A two-label domain with an upper-case suffix label, matched by the
\* lower-case suffix entry, returned unchanged.
C7_Witness ==
    /\ ETLDDone
    /\ LabelPlusSuffix
    /\ domain = "a.B"
    /\ "b" \in Range(suffixes)
    /\ wildcards # <<>>
    /\ exceptions # <<>>
    /\ retStr = "a.B"

\* C8: FindETLDPlusOne returns the not-found error, with an empty result and
\* a text naming the input domain, exactly when no start index has a
\* candidate that equals a suffixes entry (case-insensitively) or ends with
\* a wildcards entry; otherwise it returns a result and no error.
C8_NotFoundExactly ==
    ETLDDone =>
        IF MatchIndexes = {}
        THEN /\ retErr # NilErr
             /\ retStr = ""
             /\ retErr.msg = "no eTLD+1 found for domain: " \o domain
        ELSE retErr = NilErr

\* A domain whose only wildcard differs from its last label in letter case
\* alone, and whose suffixes entry matches no trailing run: not found.
C8_Witness ==
    /\ ETLDDone
    /\ domain = "B.B"
    /\ suffixes = <<"a.b">>
    /\ wildcards = <<"b">>
    /\ retErr # NilErr
    /\ retStr = ""

\* C9: at the smallest start index where any rule matches, an exact match
\* decides before the wildcards; when only a wildcard matches there, the
\* first exceptions entry (in list order) contained in the candidate is
\* returned verbatim, and without one the result is the whole domain at
\* index 0 and the candidate plus one label at a later index.
C9_FirstMatchDecides ==
    (ETLDDone /\ MatchIndexes # {}) =>
        LET i == Min(MatchIndexes)
        IN  IF ExactAt(i) THEN retStr = SuffixPlusOneLabel(i)
            ELSE IF ExceptionHits(i) # {}
                 THEN retStr = exceptions[Min(ExceptionHits(i))]
                 ELSE retStr = SuffixPlusOneLabel(i)

\* Only a wildcard matches, two different exceptions are contained in the
\* candidate, and the first of them is the result.
C9_Witness ==
    /\ ETLDDone
    /\ MatchIndexes # {}
    /\ ~ExactAt(Min(MatchIndexes))
    /\ Cardinality(ExceptionHits(Min(MatchIndexes))) = 2
    /\ exceptions[1] # exceptions[2]
    /\ retStr = exceptions[1]
    /\ retErr = NilErr

\* C10: a successful result is the dot-join of a trailing run of the input
\* domain's labels, letter case preserved, or an exceptions entry verbatim;
\* and the call leaves the three lists as they were.
C10_ResultFromDomainOrException ==
    [][(op = "FindETLDPlusOne" /\ pc = "call" /\ pc' = "done") =>
        /\ suffixes' = suffixes
        /\ wildcards' = wildcards
        /\ exceptions' = exceptions
        /\ retErr' = NilErr =>
              \/ \E i \in 0..(Len(DomainLabels) - 1) : retStr' = TrailingRun(i)
              \/ retStr' \in Range(exceptions)]_vars

\* A successful call on a mixed-case three-label domain that returns a
\* proper trailing run of it although a suffixes entry spells it otherwise.
C10_Witness ==
    /\ ETLDDone
    /\ domain = "B.a.B"
    /\ suffixes = <<"a.b">>
    /\ wildcards = <<>>
    /\ retErr = NilErr
    /\ retStr = "B.a.B"

-----------------------------------------------------------------------------
(* Properties of Parse                                                     *)

ParseDone == op = "Parse" /\ pc = "done"

\* The tag=value pairs of the input and, per tag, the values it is given.
PairIndexes == {k \in 1..Len(segs) : segs[k].pair}
TagsPresent == {segs[k].tag : k \in PairIndexes}
TagValues(tag) == {segs[k].val : k \in {j \in PairIndexes : segs[j].tag = tag}}

RecognizedTags == {"v", "p", "adkim", "aspf", "fo", "pct", "rf", "ri", "rua", "ruf", "sp"}
PolicyLiterals == {"none", "quarantine", "reject"}

\* Some recognized tag is given two different values.
DuplicateConflict == \E tag \in RecognizedTags : Cardinality(TagValues(tag)) > 1

IsDuplicateParameterError(err) ==
    err # NilErr /\ HasPrefix(err.msg, "dmarc: duplicate parameter")

\* The record has a valid v tag and a valid p tag.
ValidVAndP ==
    /\ TagValues("v") = {"dmarc1"}
    /\ Cardinality(TagValues("p")) = 1
    /\ TagValues("p") \subseteq PolicyLiterals

\* A value that is no decimal integer: empty, or with a character that is
\* neither a digit nor a leading sign.
NotAnInteger(val) ==
    \/ val \in {"", "+", "-"}
    \/ \E k \in 1..Len(val) :
           /\ Char(val, k) \notin {"0", "1", "2", "3", "4", "5", "6", "7", "8", "9"}
           /\ ~(k = 1 /\ Char(val, k) \in {"+", "-"})

\* C3 as stated: a record with only a valid v and a valid p parses to Policy
\* = p, both alignments relaxed, Percent nil, FailureOptions empty,
\* ReportInterval 86400 seconds and SubdomainPolicy = Policy.
C3_MinimalRecordDefaults ==
    (ParseDone /\ TagsPresent = {"v", "p"} /\ ValidVAndP) =>
        /\ retErr = NilErr
        /\ retRec # NoRec
        /\ retRec.Policy \in TagValues("p")
        /\ retRec.DKIMAlignment = "r"
        /\ retRec.SPFAlignment = "r"
        /\ retRec.Percent = <<>>
        /\ retRec.FailureOptions = 0
        /\ retRec.ReportInterval = 86400
        /\ retRec.SubdomainPolicy = retRec.Policy

\* The colon-separated tokens of an fo value and the bits they stand for.
FoTokens(val) == {TrimSpace(t) : t \in Range(Split(val, ":"))}
FoBits(val) ==
    (IF "0" \in FoTokens(val) THEN 1 ELSE 0) + (IF "1" \in FoTokens(val) THEN 2 ELSE 0)
        + (IF "d" \in FoTokens(val) THEN 4 ELSE 0) + (IF "s" \in FoTokens(val) THEN 8 ELSE 0)

\* C4 as stated: with an fo tag one of whose tokens is not 0, 1, d or s,
\* Parse returns an error and no Record; with only valid tokens a parsed
\* record's FailureOptions is the union of the tokens' bits.
C4_InvalidFoRejects ==
    (ParseDone /\ TagsPresent = {"v", "p", "fo"} /\ ValidVAndP
         /\ Cardinality(TagValues("fo")) = 1) =>
        \A val \in TagValues("fo") :
            IF FoTokens(val) \subseteq {"0", "1", "d", "s"}
            THEN retErr = NilErr /\ retRec.FailureOptions = FoBits(val)
            ELSE retErr # NilErr /\ retRec = NoRec

\* C5: Parse fails with the duplicate-parameter error exactly when some
\* recognized tag occurs more than once with different (lower-cased,
\* trimmed) values; equal repetitions and repeated unrecognized tags do not
\* cause it.
C5_DuplicateExactly ==
    ParseDone => (IsDuplicateParameterError(retErr) <=> DuplicateConflict)

\* p is given twice, as "reject" and as "none": the duplicate-parameter
\* error and no record.
C5_Witness ==
    /\ ParseDone
    /\ txt = "v=DMARC1; p=reject; P = None "
    /\ IsDuplicateParameterError(retErr)
    /\ retRec = NoRec

\* C6: with a valid v and p, and no tags besides pct, ri, sp and
\* unrecognized ones, an unparseable pct or ri and any sp never make Parse
\* fail; and in every parsed record an unparseable pct gives Percent 100, an
\* unparseable ri gives ReportInterval 86400 seconds, and an sp that is no
\* policy literal (the empty value included) gives SubdomainPolicy = Policy.
C6_SoftDefaults ==
    (ParseDone /\ ValidVAndP /\ ~DuplicateConflict) =>
        /\ ( /\ TagsPresent \cap RecognizedTags \subseteq {"v", "p", "pct", "ri", "sp"}
             /\ \A val \in TagValues("pct") \cup TagValues("ri") : NotAnInteger(val) )
               => retErr = NilErr
        /\ retErr = NilErr =>
               /\ \A val \in TagValues("pct") :
                      NotAnInteger(val) => retRec.Percent = <<100>>
               /\ \A val \in TagValues("ri") :
                      NotAnInteger(val) => retRec.ReportInterval = 86400
               /\ \A val \in TagValues("sp") :
                      val \notin PolicyLiterals => retRec.SubdomainPolicy = retRec.Policy

\* A record whose pct is not a number, parsed with Percent 100.
C6_Witness ==
    /\ ParseDone
    /\ txt = "v=DMARC1; p=reject; pct=abc"
    /\ retErr = NilErr
    /\ retRec.Percent = <<100>>
    /\ retRec.Policy = "reject"

-----------------------------------------------------------------------------
(* Properties of LookupWithOptions                                         *)

LookupDone == op = "LookupWithOptions" /\ pc \in {"done", "classified"}

\* The returned TXT strings that start with "v=DMARC1", in order.
Prefixed == SelectSeq(resolved.txts, LAMBDA t : HasPrefix(t, "v=DMARC1"))

\* The prefixed strings that Parse rejects.
Unparsed == {k \in 1..Len(Prefixed) : Parse(Prefixed[k]).err # NilErr}

ByCountOfPrefixed ==
    IF Len(Prefixed) = 0 THEN retErr = ErrNoPolicy /\ retRec = NoRec
    ELSE IF Len(Prefixed) = 1
    THEN retErr = Parse(Prefixed[1]).err /\ retRec = Parse(Prefixed[1]).rec
    ELSE retErr = ErrMultipleRecords /\ retRec = NoRec

\* C1 as stated: after a resolution without error the number of strings
\* with the prefix "v=DMARC1" decides, for every list: none gives
\* ErrNoPolicy, one gives that string's parsed Record, more give
\* ErrMultipleRecords.
C1_CountDecidesAlways ==
    (LookupDone /\ resolved.err = NilErr) => ByCountOfPrefixed

\* C1 amended: after a resolution without error, if some string with the
\* prefix "v=DMARC1" fails Parse, the Parse error of the first such string
\* is returned and no Record; otherwise the number of prefixed strings
\* decides: none gives ErrNoPolicy, one gives that string's parsed Record,
\* more give ErrMultipleRecords.
C1_CountDecides ==
    (LookupDone /\ resolved.err = NilErr) =>
        IF Unparsed # {}
        THEN retErr = Parse(Prefixed[Min(Unparsed)]).err /\ retRec = NoRec
        ELSE ByCountOfPrefixed

\* Two different valid DMARC records next to a non-DMARC string:
\* ErrMultipleRecords, and no record.
C1_Witness ==
    /\ LookupDone
    /\ resolved.err = NilErr
    /\ Len(resolved.txts) = 3
    /\ Len(Prefixed) = 2
    /\ Prefixed[1] # Prefixed[2]
    /\ Unparsed = {}
    /\ retErr = ErrMultipleRecords
    /\ retRec = NoRec

\* C2 as stated: a not-found DNS error gives ErrNoPolicy, every other
\* resolver error gives an error for which IsTempFail is true, and
\* IsTempFail is false for ErrNoPolicy and ErrMultipleRecords.
C2_OtherErrorsAreTempFail ==
    (op = "LookupWithOptions" /\ pc = "classified") =>
        LET notFound == resolved.err.type = "*net.DNSError" /\ resolved.err.IsNotFound
        IN  /\ notFound => retErr = ErrNoPolicy
            /\ (resolved.err # NilErr /\ ~notFound) => tempFail
            /\ retErr \in {ErrNoPolicy, ErrMultipleRecords} => ~tempFail

====
